---- MODULE Spec2Model ----
(***************************************************************************)
(* Model of duck_chat.api.DuckChat: the token ledger (vqd), the            *)
(* conversation history, the handshake (get_vqd), the buffered turn with   *)
(* its soft-block retry loop (get_answer), the streamed turn               *)
(* (stream_answer) and the four public operations ask_question,            *)
(* reask_question, ask_question_stream and reask_question_stream; the      *)
(* teardown of the transport (__aexit__); and the decoding of one buffered *)
(* response body, byte by byte.                                            *)
(* A call is split at its suspension points (the awaits and the yields);   *)
(* the remote service's responses are the nondeterministic inputs.         *)
(***************************************************************************)
EXTENDS Integers, Sequences, FiniteSets, TLC

(* ------------------------------ bounds --------------------------------- *)
\* number of public calls followed from an initial session state
MaxCalls == 2
\* number of records in one response body
MaxRecords == 2
\* largest configured max_retries
MaxRetries == 2
\* re-ask indices range over -MaxNum..MaxNum
MaxNum == 1

(* ------------------------- program constants --------------------------- *)
\* the status get_answer, get_vqd and stream_answer compare with
HTTP_TOO_MANY == 429
\* __init__: max_retries: int = 3
DefaultMaxRetries == 3

VARIABLES
    vqd,            \* self.vqd: the token ledger
    messages,       \* self.history.messages
    max_retries,    \* self.max_retries
    pc,             \* position of the running call ("idle" when none)
    op,             \* the public operation running or last run
    query,          \* argument of ask_question / ask_question_stream
    num,            \* argument of reask_question / reask_question_stream
    attempt,        \* get_answer: local attempt counter
    message,        \* get_answer: local list `message`
    message_list,   \* *_stream: local list `message_list`
    pending,        \* *_stream: fragment handed to the consumer at a yield
    yielded,        \* *_stream: the fragments the consumer has received
    resp_token,     \* stream_answer: the open response has an x-vqd-4 header
    lines,          \* stream_answer: records read from the open response
    issued,         \* service side: number of tokens delivered so far
    calls,          \* number of public calls started
    outcome,        \* how the last call ended ("none" while running)
    detail,         \* which raise statement ended the call
    result,         \* text returned by the buffered call
    pre_vqd,        \* ledger at entry of the call
    pre_messages,   \* history at entry of the call
    hsCount,        \* handshake requests sent by the call
    hsFailed,       \* the call's handshake raised
    reqCount,       \* turn requests sent by the call
    sleeps,         \* asyncio.sleep calls made by the call
    request,        \* the last turn request put on the wire
    response,       \* what the call has seen of the last response received
    session,        \* self._session: who created it, and whether it is closed
    framer          \* get_answer's body decoding, run on one response body

vars == << vqd, messages, max_retries, pc, op, query, num, attempt, message,
           message_list, pending, yielded, resp_token, lines, issued, calls,
           outcome,
           detail, result, pre_vqd, pre_messages, hsCount, hsFailed, reqCount,
           sleeps, request, response, session, framer >>

\* the state of the conversation and of its running call
callVars == << vqd, messages, max_retries, pc, op, query, num, attempt, message,
               message_list, pending, yielded, resp_token, lines, issued, calls,
           outcome,
               detail, result, pre_vqd, pre_messages, hsCount, hsFailed,
               reqCount, sleeps, request, response >>

(* --------------------------- value domains ----------------------------- *)
Statuses == {200, HTTP_TOO_MANY}
Queries == {"q"}
Texts == {"", "a"}
Nums == (0 - MaxNum)..MaxNum
ErrTypes == {"ERR_BN_LIMIT", "ERR_CONVERSATION_LIMIT", "ERR_OTHER", ""}
Buffered == {"ask_question", "reask_question"}
Streamed == {"ask_question_stream", "reask_question_stream"}
AskOps == {"ask_question", "ask_question_stream"}
ReaskOps == {"reask_question", "reask_question_stream"}

\* One record of a response body.  json = FALSE is a record that is not
\* valid JSON; status 0 stands for an absent "status" field.
MsgRecords ==
    {[json |-> TRUE, action |-> "", type |-> "", status |-> 0, message |-> t] : t \in Texts}
ErrRecords ==
    {[json |-> TRUE, action |-> "error", type |-> ty, status |-> st, message |-> ""] :
        ty \in ErrTypes, st \in {0, HTTP_TOO_MANY}}
Garbage == [json |-> FALSE, action |-> "", type |-> "", status |-> 0, message |-> ""]
Items == MsgRecords \cup ErrRecords \cup {Garbage}

\* records of a streamed response: a second text tells the fragments
\* apart; stream_answer reads only the "message" key of a record, so one
\* error record stands for all of them
StreamItems ==
    MsgRecords
    \cup {[json |-> TRUE, action |-> "", type |-> "", status |-> 0, message |-> "b"]}
    \cup {x \in ErrRecords : x.type = "ERR_BN_LIMIT" /\ x.status = 0}
    \cup {Garbage}

\* Bodies of a buffered response: message records, closed or not by one
\* error record or one undecodable record (get_answer's loop reads nothing
\* after the first error record, and one bad record fails the whole decode)
MsgBodies == UNION {[1..n -> MsgRecords] : n \in 0..MaxRecords}
Bodies ==
    MsgBodies \cup
    {Append(b, x) : b \in {c \in MsgBodies : Len(c) < MaxRecords},
                    x \in ErrRecords \cup {Garbage}}

NoRequest == [token |-> 0, history |-> << >>]
NoResponse ==
    [kind |-> "none", status |-> 0, token |-> 0, dict |-> FALSE, text |-> "",
     error |-> FALSE]

\* self._session = session or aiohttp.ClientSession(...): the transport is
\* the caller's when one was passed in, DuckChat's own otherwise
Transport(supplied) ==
    [owner |-> IF supplied THEN "caller" ELSE "DuckChat", closed |-> FALSE]

\* configured values of max_retries: none, one, the largest
RetryChoices == {0, 1, MaxRetries}

(* ----------------------------- helpers --------------------------------- *)
Min(a, b) == IF a < b THEN a ELSE b
Max(a, b) == IF a > b THEN a ELSE b

\* Python s[:n] for any integer n
SliceTo(s, n) ==
    LET k == IF n < 0 THEN Max(Len(s) + n, 0) ELSE Min(n, Len(s))
    IN  SubSeq(s, 1, k)

\* "".join(list)
RECURSIVE Join(_)
Join(l) == IF l = << >> THEN "" ELSE Head(l) \o Join(Tail(l))

\* the text a body carries: its message fields, in order
RECURSIVE BodyText(_)
BodyText(b) == IF b = << >> THEN "" ELSE Head(b).message \o BodyText(Tail(b))

\* the body holds a record with "action": "error"
HasErrorRecord(b) == \E i \in 1..Len(b) : b[i].json /\ b[i].action = "error"

\* what is kept of a response r once it is received: its kind, status and
\* token header, whether its body is a JSON object (handshake), the text
\* of its body and whether the body holds an error record
Seen(r) ==
    [kind |-> r.kind, status |-> r.status, token |-> r.token, dict |-> r.dict,
     text |-> BodyText(r.body), error |-> HasErrorRecord(r.body)]

\* History.add_input / History.add_answer (duck_chat.models)
add_input(m, q) == Append(m, [role |-> "user", content |-> q])
add_answer(m, a) == Append(m, [role |-> "assistant", content |-> a])

\* value of the x-vqd-4 header of a response: the next token of the service
\* when the header is present; 0 stands for the "" default of
\* headers.get("x-vqd-4", "").  The service's tokens are numbered as the
\* session stores them, so that every stored token is a new one.
HeaderToken(has) == IF has THEN issued + 1 ELSE 0

(* ------------------ fragments of the source, as operators -------------- *)
\* `if not self.vqd:` in ask_question* and reask_question*
NeedsHandshake(v) == v = << >>

\* (variant: the request carries the oldest token of the ledger)
CurrentToken_First(v) == v[1]

\* self.vqd[-1], the x-vqd-4 header of a turn request
CurrentToken(v) == v[Len(v)]

\* get_vqd: self.vqd.append(response.headers["x-vqd-4"])
StoreToken(v, t) == Append(v, t)

\* (variant: the renewed token is dropped)
RenewToken_Skip(v, t) == v

\* get_answer / stream_answer: self.vqd.append(response.headers.get("x-vqd-4", ""))
RenewToken(v, t) == Append(v, t)

\* reask_question*: if num >= len(self.vqd): num = len(self.vqd) - 1
ClampNum(n, v) == IF n >= Len(v) THEN Len(v) - 1 ELSE n

\* reask_question*: self.vqd = self.vqd[:num]
RewindLedger(v, n) == SliceTo(v, ClampNum(n, v))

\* (variant: the history is kept whole after the fresh handshake)
FirstMessageOnly_KeepAll(m) == m

\* reask_question*: self.history.messages = [self.history.messages[0]]
FirstMessageOnly(m) == << m[1] >>

\* (variant: the answer to the num-th question is kept too)
RewindHistory_KeepAnswer(m, n, v) == SliceTo(m, Min(n, Len(v)) * 2)

\* reask_question*: num = min(num, len(self.vqd)); messages = messages[: (num * 2 - 1)]
\* (n is the clamped index, v the ledger already rewound)
RewindHistory(m, n, v) == SliceTo(m, Min(n, Len(v)) * 2 - 1)

\* (variant: the loop runs once more than configured)
LoopGuard_Inclusive(a, mr) == a <= mr

\* get_answer: `while attempt < self.max_retries` and `if attempt < self.max_retries`
LoopGuard(a, mr) == a < mr

\* (variant: the list is created once, before the loop)
InitMessage_Carry(prev) == prev

\* get_answer: `message = []` at the start of every attempt (prev is what the
\* previous attempt left in the local)
InitMessage(prev) == << >>

\* get_answer: the decoder accepts the framed body iff every record is JSON
Decodes(body) == \A i \in 1..Len(body) : body[i].json

\* get_answer: err_message = x.get("type", "") or str(x)
ErrMessage(x) == IF x.type # "" THEN x.type ELSE "str(x)"

\* get_answer: what one error record does to the attempt
ClassifyError(x) ==
    IF ErrMessage(x) = "ERR_BN_LIMIT" THEN "soft"
    ELSE IF x.status = HTTP_TOO_MANY
         THEN IF ErrMessage(x) = "ERR_CONVERSATION_LIMIT"
              THEN "ConversationLimitException"
              ELSE "RatelimitException"
         ELSE "DuckChatException"

\* get_answer: `for x in data:` from record i on, with the local list msg
RECURSIVE ScanRecords(_, _, _)
ScanRecords(data, i, msg) ==
    IF i > Len(data) THEN [kind |-> "ok", message |-> msg]
    ELSE IF data[i].action = "error"
         THEN [kind |-> ClassifyError(data[i]), message |-> msg]
         ELSE ScanRecords(data, i + 1, Append(msg, data[i].message))

\* (variant: the token of every decoded response is stored)
LedgerAfterAttempt_Always(v, kind, t) == Append(v, t)

\* get_answer: `if not has_error: self.vqd.append(...)` after the record loop
\* ended as kind ("ok": no error record, "soft": has_error)
LedgerAfterAttempt(v, kind, t) == IF kind = "ok" THEN RenewToken(v, t) ELSE v

\* stream_answer: `if "message" in data and data["message"]:`
Yields(x) == x.message # ""

\* (variant: the newest fragment is put in front of the list)
Collect_Front(list, x) == << x >> \o list

\* *_stream: message_list.append(message) when the consumer asks for more
Collect(list, x) == Append(list, x)

(* --------------- the buffered body decoding, byte by byte -------------- *)
\* A body is a sequence of one-character strings.
\* b"data: ", the record marker
DataMarker ==
    << "d", "a", "t", "a", ":", " " >>

\* b"\n\ndata: ", the argument of split
RecordDelimiter ==
    << "\n", "\n", "d", "a", "t", "a", ":", " " >>

\* (variant: the limit marker is not among the stripped characters)
TrailerNoLimit ==
    << "\n", "\n", "d", "a", "t", "a", ":", " ", "[", "D", "O", "N", "E",
       "]", "\n" >>

\* b"\n\ndata: [DONE][LIMIT_CONVERSATION]\n", the argument of rstrip
Trailer ==
    << "\n", "\n", "d", "a", "t", "a", ":", " ", "[", "D", "O", "N", "E",
       "]", "[", "L", "I", "M", "I", "T", "_", "C", "O", "N", "V", "E",
       "R", "S", "A", "T", "I", "O", "N", "]", "\n" >>

\* the terminator record of a body
DoneMarker ==
    << "[", "D", "O", "N", "E", "]" >>

\* the trailing conversation-limit marker of a body
LimitMarker ==
    << "[", "L", "I", "M", "I", "T", "_", "C", "O", "N", "V", "E", "R",
       "S", "A", "T", "I", "O", "N", "]" >>

\* the bytes of the strings that occur in the records
Utf8(s) ==
    CASE s = "" ->
            << >>
      [] s = "a" ->
            << "a" >>
      [] s = "Hi" ->
            << "H", "i" >>
      [] s = "error" ->
            << "e", "r", "r", "o", "r" >>
      [] s = "message" ->
            << "m", "e", "s", "s", "a", "g", "e" >>
      [] s = "action" ->
            << "a", "c", "t", "i", "o", "n" >>
      [] s = "type" ->
            << "t", "y", "p", "e" >>
      [] s = "status" ->
            << "s", "t", "a", "t", "u", "s" >>
      [] s = "ERR_BN_LIMIT" ->
            << "E", "R", "R", "_", "B", "N", "_", "L", "I", "M", "I", "T" >>
      [] s = "ERR_CONVERSATION_LIMIT" ->
            << "E", "R", "R", "_", "C", "O", "N", "V", "E", "R", "S", "A",
               "T", "I", "O", "N", "_", "L", "I", "M", "I", "T" >>
      [] s = "ERR_OTHER" ->
            << "E", "R", "R", "_", "O", "T", "H", "E", "R" >>
CharSet(b) == {b[i] : i \in 1..Len(b)}
Quoted(b) == << "\"" >> \o b \o << "\"" >>
JsonWhitespace == {" ", "\n"}

\* a record with the message text "Hi"
HiRecord == [json |-> TRUE, action |-> "", type |-> "", status |-> 0, message |-> "Hi"]
JsonRecords == MsgRecords \cup ErrRecords \cup {HiRecord}
FramerItems == JsonRecords \cup {Garbage}

\* bodies the service sends: any records, in any arrangement
FramerBodies == UNION {[1..n -> FramerItems] : n \in 0..MaxRecords}

\* the JSON text of one record as the service writes it: a message record
\* is {"message":"..."}; an error record is {"action":"error"} with its
\* "type" and "status" members when it has them; a record that is not JSON
\* is an object that is never closed
RecordText(x) ==
    IF ~x.json THEN << "{" >> \o Utf8("error")
    ELSE IF x.action = "error"
    THEN << "{" >> \o Quoted(Utf8("action")) \o << ":" >> \o Quoted(Utf8("error"))
         \o (IF x.type = "" THEN << >>
             ELSE << "," >> \o Quoted(Utf8("type")) \o << ":" >> \o Quoted(Utf8(x.type)))
         \o (IF x.status = 0 THEN << >>
             ELSE << "," >> \o Quoted(Utf8("status")) \o << ":", "4", "2", "9" >>)
         \o << "}" >>
    ELSE << "{" >> \o Quoted(Utf8("message")) \o << ":" >> \o Quoted(Utf8(x.message))
         \o << "}" >>

\* the records of a body, each introduced by the marker and followed by the
\* blank line that separates records
RECURSIVE RecordLines(_)
RecordLines(b) ==
    IF b = << >> THEN << >>
    ELSE DataMarker \o RecordText(Head(b)) \o << "\n", "\n" >> \o RecordLines(Tail(b))

\* the bytes of a 200 body: the records, the terminator and, when limit,
\* the conversation-limit marker as one more record
Wire(b, limit) ==
    RecordLines(b) \o DataMarker \o DoneMarker
    \o (IF limit THEN << "\n", "\n" >> \o DataMarker \o LimitMarker ELSE << >>)
    \o << "\n" >>

\* least and greatest element of a non-empty set of integers
Least(S) == CHOOSE i \in S : \A j \in S : i <= j
Greatest(S) == CHOOSE i \in S : \A j \in S : i >= j

\* bytes.lstrip(chars) and bytes.rstrip(chars): everything from the first,
\* up to the last, byte that is not in chars
lstrip(b, chars) ==
    LET keep == {i \in 1..Len(b) : b[i] \notin chars}
    IN  IF keep = {} THEN << >> ELSE SubSeq(b, Least(keep), Len(b))
rstrip(b, chars) ==
    LET keep == {i \in 1..Len(b) : b[i] \notin chars}
    IN  IF keep = {} THEN << >> ELSE SubSeq(b, 1, Greatest(keep))

\* the places of b where p occurs
Occurrences(b, p) ==
    {i \in 1..(Len(b) - Len(p) + 1) : SubSeq(b, i, i + Len(p) - 1) = p}

\* bytes.split(sep): b is cut at the leftmost occurrence of sep, and its
\* rest is split in turn
RECURSIVE split(_, _)
split(b, sep) ==
    IF Occurrences(b, sep) = {} THEN << b >>
    ELSE LET i == Least(Occurrences(b, sep))
         IN  << SubSeq(b, 1, i - 1) >> \o split(SubSeq(b, i + Len(sep), Len(b)), sep)

\* sep.join(pieces)
RECURSIVE join(_, _)
join(pieces, sep) ==
    IF pieces = << >> THEN << >>
    ELSE IF Len(pieces) = 1 THEN pieces[1]
    ELSE pieces[1] \o sep \o join(Tail(pieces), sep)

\* get_answer: the JSON array text built from the raw body res
FrameBody(res) ==
    << "[" >>
    \o join(split(rstrip(lstrip(res, CharSet(DataMarker)), CharSet(Trailer)),
                  RecordDelimiter),
            << "," >>)
    \o << "]" >>

\* the elements of the text between the brackets of an array: it is cut at
\* its commas that are outside every object (as many braces closed as opened
\* before them)
Count(b, c, n) == Cardinality({j \in 1..n : b[j] = c})
RECURSIVE Elements(_)
Elements(b) ==
    LET commas == {i \in 1..Len(b) :
                    b[i] = "," /\ Count(b, "{", i) = Count(b, "}", i)}
    IN  IF commas = {} THEN << b >>
        ELSE LET i == Least(commas)
             IN  << SubSeq(b, 1, i - 1) >> \o Elements(SubSeq(b, i + 1, Len(b)))

Trimmed(b) == rstrip(lstrip(b, JsonWhitespace), JsonWhitespace)

\* the JSON decoder on the array text: the list of the records, or no list
\* when the text is not a JSON array of objects
JsonDecode(text) ==
    IF ~(Len(text) >= 2 /\ Head(text) = "[" /\ text[Len(text)] = "]")
    THEN [ok |-> FALSE, records |-> << >>]
    ELSE LET inner == SubSeq(text, 2, Len(text) - 1)
             els == Elements(inner)
             Known(e) == \E x \in JsonRecords : RecordText(x) = Trimmed(e)
             Value(e) == CHOOSE x \in JsonRecords : RecordText(x) = Trimmed(e)
         IN  IF Trimmed(inner) = << >> THEN [ok |-> TRUE, records |-> << >>]
             ELSE IF \A i \in 1..Len(els) : Known(els[i])
             THEN [ok |-> TRUE, records |-> [i \in 1..Len(els) |-> Value(els[i])]]
             ELSE [ok |-> FALSE, records |-> << >>]

\* no body is being decoded
NoFramer ==
    [pc |-> "off", sent |-> << >>, limit |-> FALSE, res |-> << >>,
     data |-> [ok |-> FALSE, records |-> << >>], kind |-> "", answer |-> ""]

(* ------------------------------- Init ---------------------------------- *)
\* A session right after construction (empty ledger, empty history), or a
\* session on which one ask_question has succeeded: the handshake token and
\* the renewed token are in the ledger, the question and the answer in the
\* history.
NewSession == [vqd |-> << >>, messages |-> << >>, issued |-> 0]
OneTurnSession ==
    [vqd |-> StoreToken(<< >>, 1) \o << 2 >>,
     messages |-> add_answer(add_input(<< >>, "q"), "a"),
     issued |-> 2]

\* the conversation s with max_retries mr and no call made yet
Constructed(s, mr) ==
    /\ vqd = s.vqd
    /\ messages = s.messages
    /\ issued = s.issued
    /\ pre_vqd = s.vqd
    /\ pre_messages = s.messages
    /\ max_retries = mr
    /\ pc = "idle"
    /\ op = "none"
    /\ query = ""
    /\ num = 0
    /\ attempt = 0
    /\ message = << >>
    /\ message_list = << >>
    /\ pending = ""
    /\ yielded = << >>
    /\ resp_token = FALSE
    /\ lines = 0
    /\ calls = 0
    /\ outcome = "none"
    /\ detail = ""
    /\ result = ""
    /\ hsCount = 0
    /\ hsFailed = FALSE
    /\ reqCount = 0
    /\ sleeps = 0
    /\ request = NoRequest
    /\ response = NoResponse

\* a DuckChat constructed without a session argument
Init ==
    /\ \E s \in {NewSession, OneTurnSession}, mr \in RetryChoices : Constructed(s, mr)
    /\ session = Transport(FALSE)
    /\ framer = NoFramer

(* --------------------------- action fragments -------------------------- *)
\* entry of a public call: the arguments are bound and the call's
\* bookkeeping starts afresh (calls made after the teardown, on a closed
\* transport, are not followed)
CallEntry(o, q, n) ==
    /\ pc = "idle"
    /\ calls < MaxCalls
    /\ ~session.closed
    /\ calls' = calls + 1
    /\ op' = o
    /\ query' = q
    /\ num' = n
    /\ pre_vqd' = vqd
    /\ pre_messages' = messages
    /\ response' = NoResponse
    /\ resp_token' = FALSE
    /\ lines' = 0
    /\ hsFailed' = FALSE
    /\ sleeps' = 0
    /\ UNCHANGED << max_retries, session, framer, issued >>

\* the call ends by raising cls at the raise statement det
Raise(cls, det) ==
    /\ pc' = "idle"
    /\ outcome' = cls
    /\ detail' = det

\* `await self.get_vqd()`: the handshake GET is sent with ledger v
SendHandshake(v) ==
    /\ vqd' = v
    /\ UNCHANGED messages
    /\ pc' = "get_vqd"
    /\ hsCount' = 1
    /\ reqCount' = 0
    /\ request' = NoRequest
    /\ attempt' = 0
    /\ message' = << >>
    /\ message_list' = << >>
    /\ pending' = ""
    /\ yielded' = << >>
    /\ outcome' = "none"
    /\ detail' = ""
    /\ result' = ""

\* entry of get_answer (buffered operations) or stream_answer (streamed
\* ones) with ledger v and history m: the first turn POST is sent, unless
\* the retry loop of get_answer does not run at all
EnterTurn(o, v, m) ==
    /\ vqd' = v
    /\ messages' = m
    /\ attempt' = 0
    /\ message' = << >>
    /\ message_list' = << >>
    /\ pending' = ""
    /\ yielded' = << >>
    /\ result' = ""
    /\ IF o \in Streamed \/ LoopGuard(0, max_retries)
       THEN /\ pc' = IF o \in Streamed THEN "stream_post" ELSE "post"
            /\ request' = [token |-> CurrentToken(v), history |-> m]
            /\ reqCount' = 1
            /\ outcome' = "none"
            /\ detail' = ""
       ELSE /\ request' = NoRequest
            /\ reqCount' = 0
            /\ Raise("DuckChatException", "ERR_BN_LIMIT after attempts")

(* ------------------------------ actions -------------------------------- *)
\* ask_question(query) and ask_question_stream(query), up to the first await
Ask(o, q) ==
    /\ CallEntry(o, q, 0)
    /\ IF NeedsHandshake(vqd)
       THEN SendHandshake(vqd)
       ELSE /\ hsCount' = 0
            /\ EnterTurn(o, vqd, add_input(messages, q))

ask_question == \E q \in Queries : Ask("ask_question", q)

ask_question_stream == \E q \in Queries : Ask("ask_question_stream", q)

\* reask_question(num) and reask_question_stream(num), up to the first await
Reask(o, n) ==
    /\ CallEntry(o, "", n)
    /\ LET n1 == ClampNum(n, vqd)
           v1 == RewindLedger(vqd, n)
       IN  IF messages = << >>
           THEN /\ vqd' = v1
                /\ UNCHANGED << messages, request, attempt, message,
                                message_list, pending, yielded >>
                /\ hsCount' = 0
                /\ reqCount' = 0
                /\ result' = ""
                /\ IF o = "reask_question"
                   THEN /\ pc' = "idle"
                        /\ outcome' = "ok"
                        /\ detail' = ""
                   ELSE Raise("GeneratorExit", "There is no history messages")
           ELSE IF NeedsHandshake(v1)
                THEN SendHandshake(v1)
                ELSE /\ hsCount' = 0
                     /\ EnterTurn(o, v1, RewindHistory(messages, n1, v1))

reask_question == \E n \in Nums : Reask("reask_question", n)

reask_question_stream == \E n \in Nums : Reask("reask_question_stream", n)

\* get_vqd: the handshake response arrives; on success the caller goes on
\* to add_input (ask) or to keep the first message (re-ask) and sends the turn
HandshakeResponses ==
    {[kind |-> "handshake", status |-> HTTP_TOO_MANY, body |-> << >>, token |-> 0, dict |-> d] :
        d \in BOOLEAN}
    \cup
    {[kind |-> "handshake", status |-> 200, body |-> << >>, token |-> HeaderToken(h), dict |-> TRUE] :
        h \in BOOLEAN}

get_vqd ==
    /\ pc = "get_vqd"
    /\ \E r \in HandshakeResponses :
        /\ response' = Seen(r)
        /\ IF r.status = HTTP_TOO_MANY
           THEN /\ IF r.dict
                   THEN Raise("RatelimitException", "get_vqd 429")
                   ELSE Raise("DuckChatException", "get_vqd 429 body")
                /\ hsFailed' = TRUE
                /\ UNCHANGED << vqd, messages, attempt, message, message_list,
                                pending, yielded, result, reqCount, request, issued >>
           ELSE IF r.token # 0
                THEN /\ issued' = issued + 1
                     /\ hsFailed' = FALSE
                     /\ EnterTurn(op, StoreToken(vqd, r.token),
                                  IF op \in AskOps
                                  THEN add_input(messages, query)
                                  ELSE FirstMessageOnly(messages))
                ELSE /\ Raise("DuckChatException", "No x-vqd-4")
                     /\ hsFailed' = TRUE
                     /\ UNCHANGED << vqd, messages, attempt, message,
                                     message_list, pending, yielded, result, reqCount,
                                     request, issued >>
    /\ UNCHANGED << max_retries, session, framer, op, query, num, resp_token, lines, calls,
                    pre_vqd, pre_messages, hsCount, sleeps >>

\* get_answer: one response to the turn POST, through the end of the attempt;
\* on success ask_question / reask_question append the answer and return.
\* (The x-vqd-4 header is read on success only, so only the responses whose
\* body is all message records come with and without it.)
TurnResponses ==
    {[kind |-> "turn", status |-> HTTP_TOO_MANY, body |-> << >>, token |-> 0, dict |-> FALSE]}
    \cup
    {[kind |-> "turn", status |-> 200, body |-> b, token |-> 0, dict |-> FALSE] :
        b \in Bodies}
    \cup
    {[kind |-> "turn", status |-> 200, body |-> b, token |-> HeaderToken(TRUE), dict |-> FALSE] :
        b \in MsgBodies}

get_answer ==
    /\ pc = "post"
    /\ \E r \in TurnResponses :
        /\ response' = Seen(r)
        /\ IF r.status = HTTP_TOO_MANY
           THEN /\ Raise("RatelimitException", "status 429")
                /\ UNCHANGED << vqd, messages, attempt, message, result, sleeps, issued >>
           ELSE IF ~Decodes(r.body)
           THEN /\ Raise("DuckChatException", "Couldn't parse body")
                /\ UNCHANGED << vqd, messages, attempt, message, result, sleeps, issued >>
           ELSE LET s == ScanRecords(r.body, 1, InitMessage(message))
                IN  /\ message' = s.message
                    /\ IF s.kind = "ok"
                       THEN /\ vqd' = LedgerAfterAttempt(vqd, s.kind, r.token)
                            /\ result' = Join(s.message)
                            /\ messages' = add_answer(messages, Join(s.message))
                            /\ pc' = "idle"
                            /\ outcome' = "ok"
                            /\ detail' = ""
                            /\ issued' = IF r.token # 0 THEN issued + 1 ELSE issued
                            /\ UNCHANGED << attempt, sleeps >>
                       ELSE IF s.kind = "soft"
                       THEN /\ attempt' = attempt + 1
                            /\ vqd' = LedgerAfterAttempt(vqd, s.kind, r.token)
                            /\ UNCHANGED << messages, result, issued >>
                            /\ IF LoopGuard(attempt + 1, max_retries)
                               THEN /\ pc' = "sleep"
                                    /\ sleeps' = sleeps + 1
                                    /\ UNCHANGED << outcome, detail >>
                               ELSE /\ Raise("DuckChatException", "ERR_BN_LIMIT after attempts")
                                    /\ UNCHANGED sleeps
                       ELSE /\ Raise(s.kind, "error record")
                            /\ UNCHANGED << vqd, messages, attempt, result, sleeps, issued >>
    /\ UNCHANGED << max_retries, session, framer, op, query, num, message_list, pending, yielded,
                    resp_token, lines, calls, pre_vqd, pre_messages, hsCount,
                    hsFailed, reqCount, request >>

\* get_answer: asyncio.sleep(self.delay) returns and the loop sends the
\* next attempt
retry ==
    /\ pc = "sleep"
    /\ pc' = "post"
    /\ request' = [token |-> CurrentToken(vqd), history |-> messages]
    /\ reqCount' = reqCount + 1
    /\ UNCHANGED << vqd, messages, max_retries, session, framer, op, query, num, attempt,
                    message, message_list, pending, yielded, resp_token, lines, issued,
                    calls, outcome, detail, result, pre_vqd, pre_messages,
                    hsCount, hsFailed, sleeps, response >>

\* stream_answer: status and headers of the response to the turn POST
StreamHeads ==
    {[kind |-> "stream", status |-> HTTP_TOO_MANY, body |-> << >>, token |-> 0, dict |-> FALSE]}
    \cup
    {[kind |-> "stream", status |-> 200, body |-> << >>, token |-> HeaderToken(h), dict |-> FALSE] :
        h \in BOOLEAN}

stream_open ==
    /\ pc = "stream_post"
    /\ \E r \in StreamHeads :
        /\ response' = Seen(r)
        /\ resp_token' = (r.token # 0)
        /\ IF r.status = HTTP_TOO_MANY
           THEN Raise("RatelimitException", "status 429")
           ELSE /\ pc' = "stream_read"
                /\ UNCHANGED << outcome, detail >>
    /\ UNCHANGED << vqd, messages, max_retries, session, framer, op, query, num, attempt,
                    message, message_list, pending, yielded, lines, issued, calls,
                    result, pre_vqd, pre_messages, hsCount, hsFailed, reqCount,
                    sleeps, request >>

\* stream_answer: one `data: ` line that is not the terminator, its record
\* drawn from S
StreamLine(S) ==
    /\ pc = "stream_read"
    /\ lines < MaxRecords
    /\ \E x \in S :
        /\ lines' = lines + 1
        /\ response' = [response EXCEPT !.error = @ \/ HasErrorRecord(<< x >>)]
        /\ IF ~x.json
           THEN /\ Raise("DuckChatException", "Error while streaming data")
                /\ UNCHANGED << pending, yielded >>
           ELSE IF Yields(x)
           THEN /\ pc' = "yield"
                /\ pending' = x.message
                /\ yielded' = Append(yielded, x.message)
                /\ UNCHANGED << outcome, detail >>
           ELSE UNCHANGED << pc, pending, yielded, outcome, detail >>
    /\ UNCHANGED << vqd, messages, max_retries, session, framer, op, query, num, attempt,
                    message, message_list, resp_token, issued, calls, result,
                    pre_vqd, pre_messages, hsCount, hsFailed, reqCount, sleeps,
                    request >>

stream_line == StreamLine(Items)

\* *_stream: the consumer asks for the next fragment
stream_resume ==
    /\ pc = "yield"
    /\ pc' = "stream_read"
    /\ message_list' = Collect(message_list, pending)
    /\ UNCHANGED << vqd, messages, max_retries, session, framer, op, query, num, attempt,
                    message, pending, yielded, resp_token, lines, issued, calls,
                    outcome, detail, result, pre_vqd, pre_messages, hsCount,
                    hsFailed, reqCount, sleeps, request, response >>

\* *_stream: the consumer closes the generator at a yield
stream_abandon ==
    /\ pc = "yield"
    /\ pc' = "idle"
    /\ outcome' = "abandoned"
    /\ UNCHANGED << vqd, messages, max_retries, session, framer, op, query, num, attempt,
                    message, message_list, pending, yielded, resp_token, lines, issued,
                    calls, detail, result, pre_vqd, pre_messages, hsCount,
                    hsFailed, reqCount, sleeps, request, response >>

\* stream_answer: the `[DONE]` line or the end of the stream; the token is
\* renewed and ask_question_stream / reask_question_stream append the answer
stream_done ==
    /\ pc = "stream_read"
    /\ vqd' = RenewToken(vqd, HeaderToken(resp_token))
    /\ issued' = IF resp_token THEN issued + 1 ELSE issued
    /\ messages' = add_answer(messages, Join(message_list))
    /\ pc' = "idle"
    /\ outcome' = "ok"
    /\ detail' = ""
    /\ UNCHANGED << max_retries, session, framer, op, query, num, attempt, message,
                    message_list, pending, yielded, resp_token, lines, calls,
                    result, pre_vqd, pre_messages, hsCount, hsFailed, reqCount,
                    sleeps, request, response >>

Next ==
    \/ ask_question
    \/ ask_question_stream
    \/ reask_question
    \/ reask_question_stream
    \/ get_vqd
    \/ get_answer
    \/ retry
    \/ stream_open
    \/ stream_line
    \/ stream_resume
    \/ stream_abandon
    \/ stream_done

Spec == Init /\ [][Next]_vars

(* --------------------------- streamed calls ---------------------------- *)
\* the streamed operations alone, on responses whose fragments carry two
\* different texts
InitStream ==
    /\ \E s \in {NewSession, OneTurnSession} : Constructed(s, DefaultMaxRetries)
    /\ session = Transport(FALSE)
    /\ framer = NoFramer

stream_fragment == StreamLine(StreamItems)

NextStream ==
    \/ ask_question_stream
    \/ reask_question_stream
    \/ get_vqd
    \/ stream_open
    \/ stream_fragment
    \/ stream_resume
    \/ stream_abandon
    \/ stream_done

SpecStream == InitStream /\ [][NextStream]_vars

(* ------------------------------ teardown ------------------------------- *)
\* a DuckChat constructed with or without a session argument
InitTeardown ==
    /\ \E s \in {NewSession, OneTurnSession}, mr \in RetryChoices : Constructed(s, mr)
    /\ \E supplied \in BOOLEAN : session = Transport(supplied)
    /\ framer = NoFramer

\* __aexit__: await self._session.__aexit__(...), which closes the transport
aexit ==
    /\ pc = "idle"
    /\ ~session.closed
    /\ session' = [session EXCEPT !.closed = TRUE]
    /\ UNCHANGED << callVars, framer >>

\* the calls of a conversation, then its teardown
NextTeardown ==
    \/ Next
    \/ aexit

SpecTeardown == InitTeardown /\ [][NextTeardown]_vars

(* ---------------------- decoding one buffered body --------------------- *)
\* get_answer has read the 200 body res = Wire(b, limit) of one attempt
InitFramer ==
    /\ Constructed(NewSession, DefaultMaxRetries)
    /\ session = Transport(FALSE)
    /\ \E b \in FramerBodies, limit \in BOOLEAN :
        framer = [NoFramer EXCEPT !.pc = "received", !.sent = b,
                                  !.limit = limit, !.res = Wire(b, limit)]

\* get_answer: the body is framed as a JSON array and decoded; a body that
\* does not decode raises DuckChatException("Couldn't parse body=...")
frame_body ==
    /\ framer.pc = "received"
    /\ LET data == JsonDecode(FrameBody(framer.res))
       IN  framer' = IF data.ok
                     THEN [framer EXCEPT !.pc = "framed", !.data = data]
                     ELSE [framer EXCEPT !.pc = "done", !.data = data,
                                         !.kind = "Couldn't parse body"]
    /\ UNCHANGED << callVars, session >>

\* get_answer: the loop over the decoded records and what the attempt does
\* next: return the joined text ("ok"), go round the retry loop ("soft") or
\* raise
scan_records ==
    /\ framer.pc = "framed"
    /\ LET s == ScanRecords(framer.data.records, 1, InitMessage(<< >>))
       IN  framer' = [framer EXCEPT !.pc = "done", !.kind = s.kind,
                        !.answer = IF s.kind = "ok" THEN Join(s.message) ELSE ""]
    /\ UNCHANGED << callVars, session >>

NextFramer ==
    \/ frame_body
    \/ scan_records

SpecFramer == InitFramer /\ [][NextFramer]_vars


(* ============================= properties ============================== *)
Errors == {"RatelimitException", "ConversationLimitException", "DuckChatException"}
RetriesExhausted ==
    outcome = "DuckChatException" /\ detail = "ERR_BN_LIMIT after attempts"
Ended(ops) == pc = "idle" /\ op \in ops
Unchanged == messages = pre_messages /\ vqd = pre_vqd
IsPrefix(s, t) == Len(s) <= Len(t) /\ SubSeq(t, 1, Len(s)) = s
Tokens(v) == {v[i] : i \in 1..Len(v)}

\* the history grew by the user message q and one assistant message
GrewByOneTurn(q) ==
    /\ Len(messages) = Len(pre_messages) + 2
    /\ IsPrefix(pre_messages, messages)
    /\ messages[Len(messages) - 1] = [role |-> "user", content |-> q]
    /\ messages[Len(messages)].role = "assistant"

\* C1 (as stated): every successful ask_question / fully consumed
\* ask_question_stream, from any session state, grows the history by one
\* user and one assistant message and the ledger by exactly one token.
C1_OneTokenPerTurn ==
    (Ended(AskOps) /\ outcome = "ok") =>
        /\ GrewByOneTurn(query)
        /\ IsPrefix(pre_vqd, vqd)
        /\ Len(vqd) = Len(pre_vqd) + 1

\* C1 (amended): every successful ask_question / fully consumed
\* ask_question_stream grows the history by one user and one assistant
\* message; the ledger grows by exactly one token when it was non-empty at
\* entry and by exactly two (the handshake token, then the renewed token)
\* when it was empty at entry.
C1_TurnGrowth ==
    (Ended(AskOps) /\ outcome = "ok") =>
        /\ GrewByOneTurn(query)
        /\ IsPrefix(pre_vqd, vqd)
        /\ Len(vqd) = Len(pre_vqd) + (IF pre_vqd = << >> THEN 2 ELSE 1)

C1_Witness ==
    /\ Ended({"ask_question"})
    /\ outcome = "ok"
    /\ pre_vqd # << >>
    /\ Len(vqd) = Len(pre_vqd) + 1
    /\ result = "a"

\* C2: a buffered ask_question whose every response is a soft block, for
\* max_retries attempts, fails with the retries-exhausted error and leaves
\* history and ledger as they were before the call.
C2_ExhaustedLeavesState ==
    (Ended({"ask_question"}) /\ max_retries >= 1 /\ attempt = max_retries) =>
        /\ RetriesExhausted
        /\ Unchanged

\* C3: an ask_question / ask_question_stream that ends with a hard error
\* (a failed handshake, or an error answer to a turn request that was sent)
\* leaves history and ledger as they were before the call.
C3_HardErrorLeavesState ==
    (Ended(AskOps) /\ outcome \in Errors /\ ~RetriesExhausted
        /\ (hsFailed \/ reqCount >= 1)) => Unchanged

\* C4: a reask_question / reask_question_stream that ends with an error
\* (a failed handshake, or a turn request that was sent and failed or used
\* up its retries) leaves history and ledger as they were before the call.
C4_ReaskErrorLeavesState ==
    (Ended(ReaskOps) /\ outcome \in Errors /\ (hsFailed \/ reqCount >= 1))
        => Unchanged

\* C5: in every reachable state (of a session that makes at least one
\* attempt per turn) the history alternates user, assistant, user, ...
\* starting with a user message.
Alternates(m) ==
    \A i \in 1..Len(m) : m[i].role = IF i % 2 = 1 THEN "user" ELSE "assistant"
C5_HistoryAlternates == max_retries >= 1 => Alternates(messages)

\* C6: a successful buffered ask_question has the effect of an immediate
\* success on the response that succeeded, however many soft blocks came
\* before it: the answer is the text of that response alone, the history
\* gains the question and that answer, and the ledger gains that response's
\* token and nothing else after the token the requests carried; each
\* blocked attempt cost one more request and no handshake.
C6_SoftBlocksLeaveNoTrace ==
    (Ended({"ask_question"}) /\ outcome = "ok") =>
        /\ result = response.text
        /\ messages = add_answer(add_input(pre_messages, query), response.text)
        /\ vqd = Append(IF pre_vqd = << >> THEN << request.token >> ELSE pre_vqd,
                        response.token)
        /\ pre_vqd # << >> => request.token = pre_vqd[Len(pre_vqd)]
        /\ reqCount = attempt + 1
        /\ hsCount = IF pre_vqd = << >> THEN 1 ELSE 0

C6_Witness ==
    /\ Ended({"ask_question"})
    /\ outcome = "ok"
    /\ attempt >= 1
    /\ message # << >>
    /\ result = "a"

\* C7: reask_question(0) / reask_question_stream(0) on a non-empty history
\* empties the ledger and performs a handshake; every turn request of the
\* call carries only the original first message and the token just
\* acquired, and while the turn runs the session holds that message and
\* that token only.
C7_ReaskFromZero ==
    (op \in ReaskOps /\ num = 0 /\ pre_messages # << >>) =>
        /\ hsCount = 1
        /\ pc = "get_vqd" => vqd = << >>
        /\ reqCount >= 1 =>
            /\ request.history = << pre_messages[1] >>
            /\ request.token # 0
            /\ request.token \notin Tokens(pre_vqd)
        /\ pc \in {"post", "sleep", "stream_post", "stream_read", "yield"} =>
            /\ vqd = << request.token >>
            /\ messages = << pre_messages[1] >>
        /\ (pc = "idle" /\ reqCount >= 1) =>
            /\ vqd[1] = request.token
            /\ Len(vqd) = IF outcome = "ok" THEN 2 ELSE 1
            /\ messages[1] = pre_messages[1]
            /\ Len(messages) = IF outcome = "ok" THEN 2 ELSE 1

C7_Witness ==
    /\ op \in ReaskOps
    /\ num = 0
    /\ Len(pre_messages) >= 2
    /\ pre_vqd # << >>
    /\ pc \in {"post", "stream_post"}
    /\ messages = << pre_messages[1] >>

\* C8: on a session with no messages, reask_question(n) returns empty text
\* and reask_question_stream(n) ends with the no-history error; no request
\* is sent and history and ledger are unchanged (sessions that make at
\* least one attempt per turn).
C8_ReaskEmptyIsNoOp ==
    (op \in ReaskOps /\ pre_messages = << >> /\ max_retries >= 1) =>
        /\ pc = "idle"
        /\ outcome = IF op = "reask_question" THEN "ok" ELSE "GeneratorExit"
        /\ result = ""
        /\ hsCount = 0
        /\ reqCount = 0
        /\ Unchanged

\* C9: a handshake answered with status 429 fails with RatelimitException,
\* whatever the body, and appends nothing to the ledger.
C9_Handshake429RateLimited ==
    (response.kind = "handshake" /\ response.status = HTTP_TOO_MANY) =>
        /\ pc = "idle"
        /\ outcome = "RatelimitException"
        /\ vqd = << >>

\* C10: a turn request is sent only with a non-empty ledger and carries its
\* last token; a handshake is sent only when the ledger is empty (at entry
\* of ask, after the rewind of a re-ask), at most once per call and before
\* any turn request; after a failed handshake no turn request is sent.
C10_TokenDiscipline ==
    /\ pc \in {"post", "stream_post"} =>
        /\ vqd # << >>
        /\ request.token = vqd[Len(vqd)]
        /\ reqCount >= 1
    /\ pc = "get_vqd" => (vqd = << >> /\ reqCount = 0 /\ hsCount = 1)
    /\ hsCount <= 1
    /\ hsCount = 1 =>
        IF op \in AskOps THEN pre_vqd = << >>
        ELSE SliceTo(pre_vqd, IF num >= Len(pre_vqd) THEN Len(pre_vqd) - 1 ELSE num) = << >>
    /\ hsFailed => (hsCount = 1 /\ reqCount = 0 /\ pc = "idle" /\ outcome \in Errors)

C10_Witness ==
    /\ pc = "post"
    /\ op = "reask_question"
    /\ hsCount = 1
    /\ reqCount = 2
    /\ Len(vqd) = 1
    /\ Len(pre_vqd) = 2

\* C11 (as stated): a call, buffered or streamed, whose last response held
\* a record with "action": "error" never ends as a success: ask_question
\* and a fully consumed ask_question_stream treat the record alike.
C11_ErrorRecordNeverSucceeds ==
    (pc = "idle" /\ op \in Buffered \cup Streamed /\ max_retries >= 1
        /\ response.error) => outcome # "ok"

\* C12 (as stated): after __aexit__ the transport is closed if and only if
\* DuckChat created it; a transport passed in by the caller is still open.
C12_ClosesOnlyOwnTransport ==
    session.owner = "caller" => ~session.closed

\* C13: a buffered call sends at most max_retries turn requests, for every
\* max_retries >= 0: the attempt counter and the requests sent never exceed
\* max_retries, the k-th request follows k - 1 soft blocks and k - 1 sleeps,
\* a sleep is only ever entered with an attempt left, and a call that ends
\* with the retries-exhausted error has sent exactly max_retries requests
\* and slept between consecutive ones only (max_retries - 1 times, never
\* after the last; not at all when max_retries = 0).  A call that ran
\* get_answer and succeeded has sent a request.
C13_BoundedAttempts ==
    op \in Buffered =>
        /\ reqCount <= max_retries
        /\ attempt <= max_retries
        /\ pc = "post" => (reqCount = attempt + 1 /\ sleeps = attempt)
        /\ pc = "sleep" =>
            (reqCount = attempt /\ sleeps = attempt /\ attempt < max_retries)
        /\ (pc = "idle" /\ RetriesExhausted) =>
            /\ reqCount = max_retries
            /\ attempt = max_retries
            /\ sleeps = Max(max_retries - 1, 0)
        /\ (pc = "idle" /\ outcome = "ok"
                /\ ~(op = "reask_question" /\ pre_messages = << >>)) =>
            reqCount >= 1

C13_Witness ==
    /\ Ended(Buffered)
    /\ RetriesExhausted
    /\ max_retries >= 2
    /\ reqCount = max_retries
    /\ sleeps = max_retries - 1

\* C14: within one buffered call, a step in which a response is a soft
\* block (the attempt counter goes up) changes neither the history nor the
\* ledger, sends no handshake and leaves the request as it was; the step
\* that ends the sleep puts the same token and the same history on the wire
\* again, with history, ledger and handshake count untouched.
C14_RetryRepeatsRequest ==
    [][ /\ (op \in Buffered /\ pc = "post" /\ attempt' = attempt + 1) =>
            /\ vqd' = vqd
            /\ messages' = messages
            /\ hsCount' = hsCount
            /\ request' = request
        /\ pc = "sleep" =>
            /\ pc' = "post"
            /\ reqCount' = reqCount + 1
            /\ request' = request
            /\ request'.token = vqd[Len(vqd)]
            /\ request'.history = messages
            /\ vqd' = vqd
            /\ messages' = messages
            /\ hsCount' = hsCount ]_vars

C14_Witness ==
    /\ op \in Buffered
    /\ pc = "post"
    /\ attempt = 1
    /\ reqCount = 2
    /\ sleeps = 1
    /\ request.history = messages

\* C15 (as stated): the outcome of a decoded 200 body that holds an error
\* record is decided by its first error record: status 429 ends the attempt
\* with ConversationLimitException when the type is ERR_CONVERSATION_LIMIT
\* and with RatelimitException otherwise; a record of type ERR_BN_LIMIT
\* whose status is not 429 is the only one retried; any other record ends
\* the attempt with DuckChatException.  No text is returned.
FirstErrorRecord(b) ==
    b[Least({i \in 1..Len(b) : b[i].json /\ b[i].action = "error"})]
C15_FirstErrorRecordDecides ==
    (framer.pc = "done" /\ framer.data.ok /\ HasErrorRecord(framer.data.records)) =>
        LET x == FirstErrorRecord(framer.data.records)
        IN  /\ framer.kind =
                IF x.status = HTTP_TOO_MANY
                THEN IF x.type = "ERR_CONVERSATION_LIMIT"
                     THEN "ConversationLimitException"
                     ELSE "RatelimitException"
                ELSE IF x.type = "ERR_BN_LIMIT" THEN "soft"
                ELSE "DuckChatException"
            /\ framer.answer = ""

\* C16 (as stated): reask_question(n) / reask_question_stream(n) on a
\* session with messages (and tokens) first clamps n into
\* [0, len(ledger) - 1]; with the clamped n >= 1 the ledger keeps its first
\* n tokens and the history its first 2n - 1 messages, and the turn request
\* carries that history, which ends with a user message, and the token at
\* ledger index n - 1; with the clamped n = 0 the ledger is emptied and a
\* handshake is made.
ClampInto(n, lo, hi) == IF n < lo THEN lo ELSE IF n > hi THEN hi ELSE n
C16_ReaskRewind ==
    (op \in ReaskOps /\ pre_messages # << >> /\ pre_vqd # << >>
        /\ pc \in {"post", "stream_post"} /\ reqCount = 1) =>
        LET n == ClampInto(num, 0, Len(pre_vqd) - 1)
        IN  IF n = 0 THEN hsCount = 1
            ELSE /\ hsCount = 0
                 /\ vqd = SubSeq(pre_vqd, 1, n)
                 /\ Len(pre_messages) >= 2 * n - 1
                 /\ messages = SubSeq(pre_messages, 1, 2 * n - 1)
                 /\ messages[Len(messages)].role = "user"
                 /\ request.history = messages
                 /\ request.token = pre_vqd[n]

\* C17: in a streamed call that sent its turn request, only non-empty
\* fragments are handed to the consumer; while the stream is open, and
\* after it was abandoned at a yield or failed, the history is the one the
\* request carried and the ledger still ends with the request's token; when
\* the call ends as a success the history is the request's history plus one
\* assistant message whose text is the fragments the consumer received
\* (recorded at each yield), joined in the order received, and the ledger
\* is the one the request was sent with plus one token.
C17_StreamAppendsAfterCompletion ==
    (op \in Streamed /\ reqCount >= 1) =>
        /\ \A i \in 1..Len(yielded) : yielded[i] # ""
        /\ pc = "yield" => (yielded # << >> /\ yielded[Len(yielded)] = pending)
        /\ outcome = "abandoned" => yielded # << >>
        /\ (pc \in {"stream_post", "stream_read", "yield"}
                \/ outcome \in Errors \cup {"abandoned"}) =>
            /\ messages = request.history
            /\ vqd # << >>
            /\ vqd[Len(vqd)] = request.token
        /\ (pc = "idle" /\ outcome = "ok") =>
            /\ messages = add_answer(request.history, Join(yielded))
            /\ Len(vqd) >= 2
            /\ vqd[Len(vqd) - 1] = request.token
            /\ vqd[Len(vqd)] = IF resp_token THEN issued ELSE 0

C17_Witness ==
    /\ Ended(Streamed)
    /\ outcome = "ok"
    /\ yielded = << "a", "b" >>
    /\ lines = 2
    /\ messages[Len(messages)] = [role |-> "assistant", content |-> "ab"]

\* C18 (as stated): every entry of the ledger is a token the service
\* delivered in an x-vqd-4 header, and no turn request carries an empty
\* token (0 stands for the empty string).
C18_LedgerHoldsDeliveredTokens ==
    /\ \A i \in 1..Len(vqd) : vqd[i] # 0
    /\ (pc \in {"post", "stream_post"} /\ reqCount >= 1) => request.token # 0

\* C19: for every body of k >= 1 JSON object records, each after the
\* `data: ` marker and a blank line apart, followed by the [DONE] terminator
\* and with or without the [LIMIT_CONVERSATION] marker, the decoded list is
\* exactly the k records in order; when none of them is an error record the
\* attempt succeeds and the answer is their message fields joined.
C19_FramerDecodesRecords ==
    (framer.pc \in {"framed", "done"} /\ Len(framer.sent) >= 1
        /\ \A i \in 1..Len(framer.sent) : framer.sent[i] \in JsonRecords) =>
        /\ framer.data.ok
        /\ framer.data.records = framer.sent
        /\ (framer.pc = "done" /\ ~HasErrorRecord(framer.sent)) =>
            /\ framer.kind = "ok"
            /\ framer.answer = BodyText(framer.sent)

C19_Witness ==
    /\ framer.pc = "done"
    /\ framer.sent = << HiRecord >>
    /\ framer.limit
    /\ framer.data.records = << HiRecord >>
    /\ framer.answer = "Hi"

\* C20: history and ledger are aligned when both are empty or the history
\* holds two messages for every token but the first.  A session starts
\* aligned, and every call that starts aligned and ends as a success, with
\* a re-ask index >= 0, ends aligned: so every state reached by successful
\* calls alone is aligned.
Aligned(v, m) == (v = << >> /\ m = << >>) \/ Len(m) = 2 * (Len(v) - 1)
C20_LedgerHistoryAligned ==
    /\ calls = 0 => Aligned(vqd, messages)
    /\ (pc = "idle" /\ calls >= 1 /\ outcome = "ok"
            /\ (op \in ReaskOps => num >= 0)
            /\ Aligned(pre_vqd, pre_messages)) => Aligned(vqd, messages)

C20_Witness ==
    /\ Ended(ReaskOps)
    /\ outcome = "ok"
    /\ num = 1
    /\ Len(pre_vqd) >= 2
    /\ Aligned(pre_vqd, pre_messages)
    /\ Len(vqd) = 2
    /\ Len(messages) = 2

====
